---- MODULE Spec2Model ----
(***************************************************************************)
(* Model of DartWorkspaceSymbolProvider                                    *)
(* (src/src/providers/dart_workspace_symbol_provider.ts).                  *)
(*                                                                         *)
(* Strings that the code takes apart (queries, patterns, file paths,       *)
(* display paths) are sequences of atoms; an atom is a one-character       *)
(* string or a word free of separators, hyphens and backslashes.  Strings  *)
(* that the code only compares and concatenates (declaration names, class  *)
(* names, parameter text) are TLA+ strings.                                *)
(***************************************************************************)
EXTENDS Integers, Sequences, FiniteSets, TLC

VARIABLES
    \* --- provideWorkspaceSymbols -------------------------------------
    searchPc,        \* "idle" | "awaiting" (at the await of line 18) | "done"
    query,           \* the query argument of the current call
    searchToken,     \* the token argument: TRUE once cancellation is requested
    pattern,         \* the pattern sent to the index (line 17)
    searchResult,    \* "none" | "null" | "list" | "rejected"
    indexCalls,      \* number of searchGetElementDeclarations calls made
    indexResponse,   \* the last response of the index
    convertCalls,    \* convertWorkspaceResult runs of the current search
    indexFailed,     \* the index call of the current search failed
    cancelledInFlight, \* the token was cancelled while the index call was pending
    symbols,         \* the entries returned by the current search
    \* --- resolveWorkspaceSymbol --------------------------------------
    calls,           \* the resolveWorkspaceSymbol calls; token is TRUE while
                     \* a pending call's token is cancelled
    foreignSymbol,   \* a SymbolInformation that is no PartialSymbolInformation
    openCalls,       \* workspace.openTextDocument calls per entry of symbols
    \* --- pattern matching done by the index --------------------------
    candidate,       \* a candidate name the index tests the pattern on
    matched,         \* whether the pattern matched the candidate
    \* --- createDisplayPath -------------------------------------------
    pathSep,         \* path.sep of the platform
    inputPath,       \* the argument of createDisplayPath, split at pathSep
    displayPath      \* its result

vars == <<searchPc, query, searchToken, pattern, searchResult, indexCalls,
          indexResponse, convertCalls, indexFailed, cancelledInFlight, symbols,
          calls, foreignSymbol, openCalls, candidate, matched, pathSep, inputPath, displayPath>>

searchVars == <<searchPc, query, searchToken, pattern, searchResult, indexCalls,
                indexResponse, convertCalls, indexFailed, cancelledInFlight>>
resolveVars == <<symbols, calls, foreignSymbol, openCalls>>
matchVars == <<candidate, matched>>
pathVars == <<pathSep, inputPath, displayPath>>

----------------------------------------------------------------------------
(* Bounds *)

MaxQueryLen == 2       \* longest query
MaxCandLen == 3        \* longest candidate name
MaxSegs == 5           \* path segments after the root
MaxDecls == 2          \* declarations in one index response
MaxResolves == 2       \* resolveWorkspaceSymbol calls per result list
MaxSearches == 1       \* index calls per behaviour

maxResults == 500

----------------------------------------------------------------------------
(* Sequence helpers *)

RECURSIVE SeqsUpTo(_, _)
SeqsUpTo(S, n) ==
    IF n = 0 THEN {<<>>}
    ELSE LET shorter == SeqsUpTo(S, n - 1)
         IN  shorter \cup {Append(s, x) : s \in {t \in shorter : Len(t) = n - 1}, x \in S}

\* Array.prototype.join / String.prototype.split with a one-atom separator.
RECURSIVE Join(_, _)
Join(parts, glue) ==
    IF parts = <<>> THEN <<>>
    ELSE IF Len(parts) = 1 THEN Head(parts)
    ELSE Head(parts) \o glue \o Join(Tail(parts), glue)

----------------------------------------------------------------------------
(* Pattern Synthesizer: line 9 and line 17 *)

Letters == {"a", "A", "b", "B"}
Alphabet == {"a", "A", "b", "-", "_"}

Queries == SeqsUpTo(Alphabet, MaxQueryLen)
Candidates == SeqsUpTo(Alphabet, MaxCandLen)

toUpperCase(c) == CASE c = "a" -> "A" [] c = "b" -> "B" [] OTHER -> c
toLowerCase(c) == CASE c = "A" -> "a" [] c = "B" -> "b" [] OTHER -> c

\* new RegExp("[^0-9a-z\-]", "gi"): a character is bad unless it is an
\* ASCII letter of either case, a digit or a hyphen.
badChars(c) == ~(c \in Letters \/ c \in {"0", "1"} \/ c = "-")

\* query.replace(this.badChars, "")
RECURSIVE StripBad(_)
StripBad(q) ==
    IF q = <<>> THEN <<>>
    ELSE IF badChars(Head(q)) THEN StripBad(Tail(q))
    ELSE <<Head(q)>> \o StripBad(Tail(q))

\* Pattern tokens: ".*" and a bracket class "[Xx]".
DotStar == [any |-> TRUE, chars |-> {}]

\* Variant that keeps the character as typed.
BracketNoUpper(c) == [any |-> FALSE, chars |-> {c}]

\* `[${c.toUpperCase()}${c.toLowerCase()}]`
Bracket(c) == [any |-> FALSE, chars |-> {toUpperCase(c), toLowerCase(c)}]

\* .split("").map((c) => `[${c.toUpperCase()}${c.toLowerCase()}]`)
MapBrackets(s) == [i \in 1..Len(s) |-> <<Bracket(s[i])>>]

\* ".*" + ....join(".*") + ".*"
SynthesizePattern(q) ==
    <<DotStar>> \o Join(MapBrackets(StripBad(q)), <<DotStar>>) \o <<DotStar>>

\* Regular-expression matching of a whole name against a token pattern, as
\* done by the index on the pattern it receives.
RECURSIVE Matches(_, _)
Matches(p, s) ==
    IF p = <<>> THEN s = <<>>
    ELSE IF Head(p).any
         THEN Matches(Tail(p), s) \/ (s # <<>> /\ Matches(p, Tail(s)))
         ELSE s # <<>> /\ Head(s) \in Head(p).chars /\ Matches(Tail(p), Tail(s))

----------------------------------------------------------------------------
(* Path Canonicalizer: createDisplayPath, lines 82-110 *)

(* A path is the sequence of its segments, i.e. the path string split at    *)
(* path.sep; an absolute path starts with the empty segment Root.  The      *)
(* regular expression of line 94 only tests whole segments (every literal   *)
(* of it is delimited by separators and [^sep]+ is one non-empty segment),  *)
(* so it is evaluated on segments.                                          *)

Root == <<>>
Hosted == <<"hosted">>
Git == <<"git">>
Lib == <<"lib">>
Ws == <<"ws">>
PkgDir == <<"foo", "-", "1.0", "-", "rc">>
BackslashName == <<"b", "\\", "c">>

\* Segment names; a backslash is an ordinary character of a name only where
\* it is not the separator.
Segments(sep) ==
    {Hosted, Git, Lib, Ws, PkgDir} \cup (IF sep = "/" THEN {BackslashName} ELSE {})

Paths(sep) == {<<Root>> \o s : s \in SeqsUpTo(Segments(sep), MaxSegs)}

UndefinedPath == <<"undefined">>
NotComputed == <<"not computed">>

\* workspace.workspaceFolders: one folder, <sep>ws.
workspaceFolders == {<<Root, Ws>>}

IsPrefix(r, p) == Len(r) <= Len(p) /\ SubSeq(p, 1, Len(r)) = r

\* workspace.getWorkspaceFolder(Uri.file(inputPath)), line 88: the innermost
\* folder that contains the path, or none.
HasWorkspaceFolder(p) == \E r \in workspaceFolders : IsPrefix(r, p)
getWorkspaceFolder(p) ==
    CHOOSE r \in workspaceFolders :
        /\ IsPrefix(r, p)
        /\ \A r2 \in workspaceFolders : IsPrefix(r2, p) => Len(r2) <= Len(r)

\* path.relative(fsPath(root.uri), inputPath), line 90, for a path inside root.
relative(r, p, sep) == Join(SubSeq(p, Len(r) + 1, Len(p)), <<sep>>)

\* The alternatives of line 94 anchored at segment i (which follows a separator).
HostedAt(p, i) ==
    i >= 2 /\ p[i] = Hosted /\ i + 3 <= Len(p) /\ p[i + 1] # <<>> /\ p[i + 2] # <<>>
GitAt(p, i) ==
    i >= 2 /\ p[i] = Git /\ i + 2 <= Len(p) /\ p[i + 1] # <<>>

PatternMatches(p) == \E i \in 1..Len(p) : HostedAt(p, i) \/ GitAt(p, i)

\* pattern.exec(inputPath), line 95: the leading .* is greedy, so the match
\* that starts furthest to the right is the one returned.  The result holds
\* the index of the segment captured by group 1; group 2 is all that follows
\* the separator after it.
exec(p) ==
    LET i == CHOOSE j \in 1..Len(p) :
                 /\ HostedAt(p, j) \/ GitAt(p, j)
                 /\ \A k \in 1..Len(p) : (HostedAt(p, k) \/ GitAt(p, k)) => k <= j
    IN  IF HostedAt(p, i) THEN i + 2 ELSE i + 1

\* matches[1].split("-")[0], line 98
RECURSIVE splitHyphenFirst(_)
splitHyphenFirst(s) ==
    IF s = <<>> \/ Head(s) = "-" THEN <<>>
    ELSE <<Head(s)>> \o splitHyphenFirst(Tail(s))

\* matches[2].startsWith(`lib${path.sep}`) ? matches[2].substr(4) : matches[2], line 101
trimLib(s, sep) ==
    IF Len(s) >= 2 /\ s[1] = "lib" /\ s[2] = sep THEN SubSeq(s, 3, Len(s)) ELSE s

\* filePath.replace(/\\/g, "/"), line 104
replaceBackslashes(s) == [i \in 1..Len(s) |-> IF s[i] = "\\" THEN "/" ELSE s[i]]

\* Variant that tries the package-cache shape before the workspace folders.
createDisplayPathCacheFirst(p, sep) ==
    IF PatternMatches(p)
    THEN LET k == exec(p)
             packageName == splitHyphenFirst(p[k])
             filePath == trimLib(Join(SubSeq(p, k + 1, Len(p)), <<sep>>), sep)
         IN  <<"package:">> \o packageName \o <<"/">> \o replaceBackslashes(filePath)
    ELSE IF HasWorkspaceFolder(p)
    THEN relative(getWorkspaceFolder(p), p, sep)
    ELSE UndefinedPath

\* Lines 88-109: workspace-relative, else package:<name>/<file>, else undefined.
createDisplayPath(p, sep) ==
    IF HasWorkspaceFolder(p)
    THEN relative(getWorkspaceFolder(p), p, sep)
    ELSE IF PatternMatches(p)
    THEN LET k == exec(p)
             packageName == splitHyphenFirst(p[k])
             filePath == trimLib(Join(SubSeq(p, k + 1, Len(p)), <<sep>>), sep)
         IN  <<"package:">> \o packageName \o <<"/">> \o replaceBackslashes(filePath)
    ELSE UndefinedPath

----------------------------------------------------------------------------
(* Result Synthesizer: getNames (lines 55-80), convertWorkspaceResult (36-53) *)

\* An optional string property that is absent.
Undefined == "undefined"

\* JavaScript truthiness of an optional string.
Truthy(s) == s # Undefined /\ s # ""

\* as.ElementDeclaration
ElementDeclarations ==
    [kind : {"CONSTRUCTOR", "SETTER", "METHOD"},
     className : {Undefined, "Foo"},
     name : {"", "named"},
     parameters : {Undefined, "(x)"},
     fileIndex : 1..2,
     codeOffset : {7},
     codeLength : {3}]

\* results.files of every response: a workspace file, a package-cache file.
Files ==
    << <<Root, Ws, Lib, Ws>>, <<Root, Hosted, Ws, PkgDir, Lib, Ws>> >>

\* The declarations the index holds: an unnamed and a named constructor in
\* the workspace file, a setter in the package-cache file.
IndexedDeclarations ==
    {d \in ElementDeclarations :
        \/ d.kind = "CONSTRUCTOR" /\ d.className = "Foo" /\ d.parameters = "(x)"
                                  /\ d.fileIndex = 1
        \/ d.kind = "SETTER" /\ d.className = "Foo" /\ d.name = "named"
                             /\ d.parameters = "(x)" /\ d.fileIndex = 2}

Responses ==
    [declarations : SeqsUpTo(IndexedDeclarations, MaxDecls), files : {Files}]

\* getSymbolKindForElementKind (analyzer.ts)
getSymbolKindForElementKind(kind) ==
    CASE kind = "CONSTRUCTOR" -> "Constructor"
      [] kind = "SETTER" -> "Property"
      [] kind = "METHOD" -> "Method"
      [] OTHER -> "Object"

getNames(result, includeFilename, file, sep) ==
    LET isCtor == result.kind = "CONSTRUCTOR" /\ Truthy(result.className)
        nameIsPrefixedWithClass == isCtor /\ Truthy(result.name)
        name1 == IF isCtor
                 THEN IF Truthy(result.name)
                      THEN result.className \o "." \o result.name
                      ELSE result.className
                 ELSE result.name
        name2 == IF Truthy(result.parameters) /\ result.kind # "SETTER"
                 THEN name1 \o result.parameters
                 ELSE name1
    IN  IF includeFilename
        THEN [name |-> IF Truthy(result.className) /\ ~nameIsPrefixedWithClass
                       THEN result.className \o "." \o name2
                       ELSE name2,
              containerName |-> createDisplayPath(file, sep)]
        ELSE [name |-> name2, containerName |-> result.className]

\* A Range that is undefined, and the locationData a plain SymbolInformation lacks.
NoRange == [start |-> -1, end |-> -1]
NoLocationData == [file |-> <<>>, length |-> -1, offset |-> -1]

convertWorkspaceResult(result, file, sep) ==
    LET names == getNames(result, TRUE, file, sep)
    IN  [partial |-> TRUE,
         name |-> names.name,
         kind |-> getSymbolKindForElementKind(result.kind),
         containerName |-> names.containerName,
         location |-> [uri |-> file, range |-> NoRange],
         locationData |-> [file |-> file,
                           length |-> result.codeLength,
                           offset |-> result.codeOffset]]

\* toRange(document, offset, length) (utils.ts)
toRange(offset, length) == [start |-> offset, end |-> offset + length]

----------------------------------------------------------------------------
(* provideWorkspaceSymbols, lines 12-21 *)

SearchQueries == SeqsUpTo({"a"}, 1)

NoResponse == [declarations |-> <<>>, files |-> <<>>]

UnusedCall ==
    [pc |-> "unused", sym |-> 0, token |-> FALSE, openFailed |-> FALSE, ret |-> "none"]

ForeignSymbol ==
    [partial |-> FALSE,
     name |-> "other",
     kind |-> "Object",
     containerName |-> <<"other">>,
     location |-> [uri |-> <<Root, Ws>>, range |-> [start |-> 0, end |-> 1]],
     locationData |-> NoLocationData]

NoCallOpening == \A i \in 1..MaxResolves : calls[i].pc # "opening"

\* Variant without the test of lines 13-14: every query goes to the index.
provideWorkspaceSymbolsNoShortCircuit(q, token) ==
    /\ searchPc # "awaiting"
    /\ NoCallOpening
    /\ indexCalls < MaxSearches
    /\ query' = q
    /\ searchToken' = token
    /\ symbols' = <<>>
    /\ calls' = [i \in 1..MaxResolves |-> UnusedCall]
    /\ openCalls' = [i \in 1..MaxDecls |-> 0]
    /\ convertCalls' = 0
    /\ indexFailed' = FALSE
    /\ cancelledInFlight' = FALSE
    /\ searchPc' = "awaiting"
    /\ pattern' = SynthesizePattern(q)
    /\ indexCalls' = indexCalls + 1
    /\ searchResult' = "none"
    /\ UNCHANGED <<indexResponse, foreignSymbol, matchVars, pathVars>>

\* Lines 13-14: the empty query returns null.  Otherwise lines 17-18 build
\* the pattern and call the index; the function suspends at the await.
\* The host drops the previous result list when it searches again.
provideWorkspaceSymbols(q, token) ==
    /\ searchPc # "awaiting"
    /\ NoCallOpening
    /\ query' = q
    /\ searchToken' = token
    /\ symbols' = <<>>
    /\ calls' = [i \in 1..MaxResolves |-> UnusedCall]
    /\ openCalls' = [i \in 1..MaxDecls |-> 0]
    /\ convertCalls' = 0
    /\ indexFailed' = FALSE
    /\ cancelledInFlight' = FALSE
    /\ IF Len(q) = 0
       THEN /\ searchPc' = "done"
            /\ searchResult' = "null"
            /\ pattern' = <<>>
            /\ UNCHANGED indexCalls
       ELSE /\ indexCalls < MaxSearches
            /\ searchPc' = "awaiting"
            /\ pattern' = SynthesizePattern(q)
            /\ indexCalls' = indexCalls + 1
            /\ searchResult' = "none"
    /\ UNCHANGED <<indexResponse, foreignSymbol, matchVars, pathVars>>

\* The host cancels the token of the pending search.  The code never reads it.
CancelSearch ==
    /\ searchPc = "awaiting"
    /\ ~searchToken
    /\ searchToken' = TRUE
    /\ cancelledInFlight' = TRUE
    /\ UNCHANGED <<searchPc, query, pattern, searchResult, indexCalls, indexResponse,
                   convertCalls, indexFailed, resolveVars, matchVars, pathVars>>

\* Variant that returns the entries in reverse order.
MapDeclarationsReversed(results, sep) ==
    [i \in 1..Len(results.declarations) |->
        LET d == results.declarations[Len(results.declarations) + 1 - i]
        IN  convertWorkspaceResult(d, results.files[d.fileIndex], sep)]

\* results.declarations.map((d) => this.convertWorkspaceResult(d, results.files[d.fileIndex]))
\* (fileIndex counts from 1 here).
MapDeclarations(results, sep) ==
    [i \in 1..Len(results.declarations) |->
        LET d == results.declarations[i]
        IN  convertWorkspaceResult(d, results.files[d.fileIndex], sep)]

\* The index call resolves: line 20 maps every declaration and returns the list.
IndexResponds(results) ==
    /\ searchPc = "awaiting"
    /\ indexResponse' = results
    /\ symbols' = MapDeclarations(results, pathSep)
    /\ convertCalls' = Len(results.declarations)
    /\ searchResult' = "list"
    /\ searchPc' = "done"
    /\ pattern' = <<>>
    /\ UNCHANGED <<query, searchToken, indexCalls, indexFailed, cancelledInFlight,
                   calls, foreignSymbol, openCalls, matchVars, pathVars>>

\* The index call rejects: the await of line 18 throws, the returned promise rejects.
IndexFails ==
    /\ searchPc = "awaiting"
    /\ indexFailed' = TRUE
    /\ searchResult' = "rejected"
    /\ searchPc' = "done"
    /\ pattern' = <<>>
    /\ UNCHANGED <<query, searchToken, indexCalls, indexResponse, convertCalls,
                   cancelledInFlight, resolveVars, matchVars, pathVars>>

----------------------------------------------------------------------------
(* resolveWorkspaceSymbol, lines 23-34 *)

\* The entry a call was given: 0 is the foreign entry.
SymbolOf(s) == IF s = 0 THEN foreignSymbol ELSE symbols[s]

\* Variant without the instanceof test of line 24: line 27 reads
\* locationData.file of undefined on a plain SymbolInformation and the call rejects.
resolveWorkspaceSymbolNoInstanceofTest(i, s, token) ==
    /\ calls[i].pc = "unused"
    /\ i > 1 => calls[i - 1].pc # "unused"
    /\ s = 0 \/ s \in 1..Len(symbols)
    /\ IF s = 0
       THEN /\ calls' = [calls EXCEPT ![i] = [pc |-> "rejected", sym |-> s,
                             token |-> FALSE, openFailed |-> FALSE, ret |-> "none"]]
            /\ UNCHANGED openCalls
       ELSE /\ calls' = [calls EXCEPT ![i] = [pc |-> "opening", sym |-> s,
                             token |-> token, openFailed |-> FALSE, ret |-> "none"]]
            /\ openCalls' = [openCalls EXCEPT ![s] = @ + 1]
    /\ UNCHANGED <<searchVars, symbols, foreignSymbol, matchVars, pathVars>>

\* Lines 24-27: a plain SymbolInformation returns (undefined) at once; for a
\* PartialSymbolInformation openTextDocument is called and the function
\* suspends at the await.
resolveWorkspaceSymbol(i, s, token) ==
    /\ calls[i].pc = "unused"
    /\ i > 1 => calls[i - 1].pc # "unused"
    /\ s = 0 \/ s \in 1..Len(symbols)
    /\ IF ~SymbolOf(s).partial
       THEN /\ calls' = [calls EXCEPT ![i] = [pc |-> "returned", sym |-> s,
                             token |-> FALSE, openFailed |-> FALSE, ret |-> "undefined"]]
            /\ UNCHANGED openCalls
       ELSE /\ calls' = [calls EXCEPT ![i] = [pc |-> "opening", sym |-> s,
                             token |-> token, openFailed |-> FALSE, ret |-> "none"]]
            /\ openCalls' = [openCalls EXCEPT ![s] = @ + 1]
    /\ UNCHANGED <<searchVars, symbols, foreignSymbol, matchVars, pathVars>>

\* The host cancels the token of a pending resolution.  The code never reads it.
CancelResolve(i) ==
    /\ calls[i].pc = "opening"
    /\ ~calls[i].token
    /\ calls' = [calls EXCEPT ![i].token = TRUE]
    /\ UNCHANGED <<searchVars, symbols, foreignSymbol, openCalls, matchVars, pathVars>>

\* openTextDocument resolves: lines 28-33 attach the location and return the entry.
OpenSucceeds(i) ==
    /\ calls[i].pc = "opening"
    /\ LET s == calls[i].sym
           data == symbols[s].locationData
       IN  symbols' = [symbols EXCEPT ![s].location =
                          [uri |-> data.file, range |-> toRange(data.offset, data.length)]]
    /\ calls' = [calls EXCEPT ![i].pc = "returned", ![i].ret = "symbol"]
    /\ UNCHANGED <<searchVars, foreignSymbol, openCalls, matchVars, pathVars>>

\* Variant that swallows the failure and returns the entry.
OpenFailsSwallowed(i) ==
    /\ calls[i].pc = "opening"
    /\ calls' = [calls EXCEPT ![i].pc = "returned", ![i].ret = "symbol",
                              ![i].openFailed = TRUE, ![i].token = FALSE]
    /\ UNCHANGED <<searchVars, symbols, foreignSymbol, openCalls, matchVars, pathVars>>

\* openTextDocument rejects: the await of line 27 throws, the returned promise rejects.
OpenFails(i) ==
    /\ calls[i].pc = "opening"
    /\ calls' = [calls EXCEPT ![i].pc = "rejected", ![i].openFailed = TRUE,
                              ![i].token = FALSE]
    /\ UNCHANGED <<searchVars, symbols, foreignSymbol, openCalls, matchVars, pathVars>>

----------------------------------------------------------------------------
(* The provider *)

Init ==
    /\ searchPc = "idle"
    /\ query = <<>>
    /\ searchToken = FALSE
    /\ pattern = <<>>
    /\ searchResult = "none"
    /\ indexCalls = 0
    /\ indexResponse = NoResponse
    /\ convertCalls = 0
    /\ indexFailed = FALSE
    /\ cancelledInFlight = FALSE
    /\ symbols = <<>>
    /\ calls = [i \in 1..MaxResolves |-> UnusedCall]
    /\ foreignSymbol = ForeignSymbol
    /\ openCalls = [i \in 1..MaxDecls |-> 0]
    /\ candidate = <<>>
    /\ matched = "none"
    /\ pathSep = "/"
    /\ inputPath = <<Root>>
    /\ displayPath = NotComputed

Next ==
    \/ \E q \in SearchQueries, token \in BOOLEAN : provideWorkspaceSymbols(q, token)
    \/ CancelSearch
    \/ \E results \in Responses : IndexResponds(results)
    \/ IndexFails
    \/ \E i \in 1..MaxResolves, s \in 0..MaxDecls, token \in BOOLEAN :
           resolveWorkspaceSymbol(i, s, token)
    \/ \E i \in 1..MaxResolves : CancelResolve(i)
    \/ \E i \in 1..MaxResolves : OpenSucceeds(i)
    \/ \E i \in 1..MaxResolves : OpenFails(i)

Spec == Init /\ [][Next]_vars

----------------------------------------------------------------------------
(* The pattern of line 17 applied to candidate names *)

\* The pattern is built once per query (line 17).
BuildPattern ==
    /\ pattern = <<>>
    /\ pattern' = SynthesizePattern(query)
    /\ UNCHANGED <<searchPc, query, searchToken, searchResult, indexCalls, indexResponse,
                   convertCalls, indexFailed, cancelledInFlight, resolveVars,
                   matchVars, pathVars>>

\* The index tests the pattern on a declaration name (one name is followed
\* per behaviour).
MatchCandidate(c) ==
    /\ pattern # <<>>
    /\ matched = "none"
    /\ candidate' = c
    /\ matched' = IF Matches(pattern, c) THEN "yes" ELSE "no"
    /\ UNCHANGED <<searchVars, resolveVars, pathVars>>

InitPattern ==
    /\ searchPc = "idle"
    /\ query \in {q \in Queries : Len(q) > 0}
    /\ searchToken = FALSE
    /\ pattern = <<>>
    /\ searchResult = "none"
    /\ indexCalls = 0
    /\ indexResponse = NoResponse
    /\ convertCalls = 0
    /\ indexFailed = FALSE
    /\ cancelledInFlight = FALSE
    /\ symbols = <<>>
    /\ calls = [i \in 1..MaxResolves |-> UnusedCall]
    /\ foreignSymbol = ForeignSymbol
    /\ openCalls = [i \in 1..MaxDecls |-> 0]
    /\ candidate = <<>>
    /\ matched = "none"
    /\ pathSep = "/"
    /\ inputPath = <<Root>>
    /\ displayPath = NotComputed

NextPattern ==
    \/ BuildPattern
    \/ \E c \in Candidates : MatchCandidate(c)

SpecPattern == InitPattern /\ [][NextPattern]_vars

----------------------------------------------------------------------------
(* createDisplayPath applied to paths *)

Canonicalize ==
    /\ displayPath = NotComputed
    /\ displayPath' = createDisplayPath(inputPath, pathSep)
    /\ UNCHANGED <<searchVars, resolveVars, matchVars, pathSep, inputPath>>

InitPath ==
    /\ searchPc = "idle"
    /\ query = <<>>
    /\ searchToken = FALSE
    /\ pattern = <<>>
    /\ searchResult = "none"
    /\ indexCalls = 0
    /\ indexResponse = NoResponse
    /\ convertCalls = 0
    /\ indexFailed = FALSE
    /\ cancelledInFlight = FALSE
    /\ symbols = <<>>
    /\ calls = [i \in 1..MaxResolves |-> UnusedCall]
    /\ foreignSymbol = ForeignSymbol
    /\ openCalls = [i \in 1..MaxDecls |-> 0]
    /\ candidate = <<>>
    /\ matched = "none"
    /\ pathSep \in {"/", "\\"}
    /\ inputPath \in Paths(pathSep)
    /\ displayPath = NotComputed

NextPath == Canonicalize

SpecPath == InitPath /\ [][NextPath]_vars

----------------------------------------------------------------------------
(* Properties *)

Resolved(sym) == sym.location.range # NoRange

NoResults == searchResult \in {"null", "list"} /\ Len(symbols) = 0

\* C1: when the index call fails or the token is cancelled while the call is
\* pending, the search yields no results (null or an empty list), does not
\* reject, and convertWorkspaceResult runs for no declaration.
C1_FailureOrCancelYieldsNoResults ==
    (searchPc = "done" /\ (indexFailed \/ cancelledInFlight))
        => (NoResults /\ convertCalls = 0)

\* C2: resolving an entry that is already resolved performs no further
\* openTextDocument call.
C2_ResolvedEntryIsNotReopened ==
    [][\A s \in 1..Len(symbols) :
           Resolved(symbols[s]) => openCalls'[s] <= openCalls[s]]_vars

\* C3: a call with the zero-length query returns null at once, whatever the
\* token, and leaves the number of index calls unchanged.
C3_EmptyQueryReturnsNullWithoutIndexCall ==
    [][(searchPc # "awaiting" /\ searchPc' # "idle" /\ query' = <<>>)
           => (searchPc' = "done" /\ searchResult' = "null"
               /\ indexCalls' = indexCalls)]_vars

C3_Witness ==
    /\ searchPc = "done"
    /\ query = <<>>
    /\ searchToken
    /\ searchResult = "null"
    /\ indexCalls > 0

\* The display name the claim gives a constructor of class C: C when the
\* record's name is empty, C.n when it is n, then the parameter text if any.
ConstructorDisplayName(d) ==
    (IF d.name = "" THEN d.className ELSE d.className \o "." \o d.name)
        \o (IF Truthy(d.parameters) THEN d.parameters ELSE "")

\* C4: every entry made from a CONSTRUCTOR record with a class name has the
\* display name ConstructorDisplayName of that record.
C4_ConstructorDisplayName ==
    searchResult = "list" =>
        \A i \in 1..Len(symbols) :
            LET d == indexResponse.declarations[i]
            IN  (d.kind = "CONSTRUCTOR" /\ Truthy(d.className))
                    => symbols[i].name = ConstructorDisplayName(d)

\* C5: a resolution whose token is cancelled while openTextDocument is
\* pending ends without changing the location of its entry.
C5_CancelledResolutionAttachesNothing ==
    [][\A i \in 1..MaxResolves :
           (calls[i].pc = "opening" /\ calls[i].token /\ calls'[i].pc # "opening")
               => symbols'[calls[i].sym].location = symbols[calls[i].sym].location]_vars

\* A resolveWorkspaceSymbol call starts in this step on the foreign entry.
StartsOnForeign(i) ==
    calls[i].pc = "unused" /\ calls'[i].pc # "unused" /\ calls'[i].sym = 0

\* C6 (as amended): a call on an entry that is no PartialSymbolInformation
\* returns at once with no value (undefined), without failing, without any
\* openTextDocument call and without changing any entry.
C6_ForeignEntryReturnsUndefined ==
    [][\A i \in 1..MaxResolves :
           StartsOnForeign(i)
               => /\ calls'[i].pc = "returned"
                  /\ calls'[i].ret = "undefined"
                  /\ foreignSymbol' = foreignSymbol
                  /\ symbols' = symbols
                  /\ openCalls' = openCalls]_vars

\* C6 (as stated): such a call returns that same entry.
C6_ForeignEntryReturnsEntry ==
    [][\A i \in 1..MaxResolves :
           StartsOnForeign(i)
               => /\ calls'[i].pc = "returned"
                  /\ calls'[i].ret = "symbol"
                  /\ foreignSymbol' = foreignSymbol
                  /\ symbols' = symbols
                  /\ openCalls' = openCalls]_vars

C6_Witness ==
    \E i \in 1..MaxResolves :
        /\ calls[i].pc = "returned"
        /\ calls[i].sym = 0
        /\ Len(symbols) > 0

\* C7: when openTextDocument fails the call rejects, and every entry (the one
\* being resolved and all others: name, container, kind, deferred metadata
\* and location) is as before.
C7_OpenFailureRejectsAndChangesNothing ==
    [][\A i \in 1..MaxResolves :
           (~calls[i].openFailed /\ calls'[i].openFailed)
               => /\ calls'[i].pc = "rejected"
                  /\ calls'[i].ret = "none"
                  /\ symbols' = symbols
                  /\ foreignSymbol' = foreignSymbol]_vars

\* A resolution failed, and a later call resolved another entry of the list.
C7_Witness ==
    \E i, j \in 1..MaxResolves :
        /\ i < j
        /\ calls[i].pc = "rejected"
        /\ calls[i].openFailed
        /\ ~Resolved(symbols[calls[i].sym])
        /\ calls[j].pc = "returned"
        /\ calls[j].sym \notin {0, calls[i].sym}
        /\ Resolved(symbols[calls[j].sym])

\* The characters of a query that the claim says are retained.
IsRetained(c) == c \in {"a", "A", "b", "B", "0", "1", "-"}
Retained(q) == SelectSeq(q, IsRetained)

EqualIgnoringCase(x, y) ==
    \/ x = y
    \/ {x, y} = {"a", "A"}
    \/ {x, y} = {"b", "B"}

\* r occurs in s in order, compared case-insensitively.
RECURSIVE OccursInOrder(_, _)
OccursInOrder(r, s) ==
    IF r = <<>> THEN TRUE
    ELSE IF s = <<>> THEN FALSE
    ELSE IF EqualIgnoringCase(Head(r), Head(s)) THEN OccursInOrder(Tail(r), Tail(s))
    ELSE OccursInOrder(r, Tail(s))

\* C8: the pattern matches a candidate exactly when the retained characters
\* of the query occur in it in order, case-insensitively; in particular it
\* matches every candidate made by inserting text between the characters of
\* the query.
C8_PatternMatchesIffInOrder ==
    matched # "none" =>
        /\ (matched = "yes") <=> OccursInOrder(Retained(query), candidate)
        /\ OccursInOrder(query, candidate) => matched = "yes"

\* A query with a stripped character and a lower-case letter matched a
\* candidate that has the letter in upper case amid other text.
C8_Witness ==
    /\ query = <<"_", "a">>
    /\ candidate = <<"b", "A", "-">>
    /\ matched = "yes"

\* The name part of a package directory: what precedes its first hyphen.
RefPackageName(dir) ==
    LET n == CHOOSE m \in 0..Len(dir) :
                 /\ \A j \in 1..m : dir[j] # "-"
                 /\ m = Len(dir) \/ dir[m + 1] = "-"
    IN  SubSeq(dir, 1, n)

\* The segments that can be the <package-dir> of a package-cache shape: a
\* non-empty segment, followed by a rest, that follows .../git/ or
\* .../hosted/<registry>/.
RefPackageDirs(p) ==
    {k \in 3..(Len(p) - 1) :
        /\ p[k] # <<>>
        /\ \/ p[k - 1] = Git
           \/ k >= 4 /\ p[k - 2] = Hosted /\ p[k - 1] # <<>>}

RefForwardSlashes(seg) == [j \in 1..Len(seg) |-> IF seg[j] = "\\" THEN "/" ELSE seg[j]]

\* <rest> with one leading lib segment removed and forward slashes throughout.
RefRest(rest) ==
    LET kept == IF Len(rest) >= 2 /\ Head(rest) = Lib THEN Tail(rest) ELSE rest
    IN  Join([j \in 1..Len(kept) |-> RefForwardSlashes(kept[j])], <<"/">>)

\* The three ordered cases.  Where several segments can be the package
\* directory, the last one is it.
RefDisplayPath(p, sep) ==
    IF \E r \in workspaceFolders : IsPrefix(r, p)
    THEN LET r == CHOOSE r \in workspaceFolders : IsPrefix(r, p)
         IN  Join(SubSeq(p, Len(r) + 1, Len(p)), <<sep>>)
    ELSE IF RefPackageDirs(p) # {}
    THEN LET k == CHOOSE k \in RefPackageDirs(p) : \A m \in RefPackageDirs(p) : m <= k
         IN  <<"package:">> \o RefPackageName(p[k]) \o <<"/">>
                 \o RefRest(SubSeq(p, k + 1, Len(p)))
    ELSE UndefinedPath

EntryMatchesDeclaration(i) ==
    LET d == indexResponse.declarations[i]
    IN  /\ symbols[i].partial
        /\ symbols[i].kind = getSymbolKindForElementKind(d.kind)
        /\ symbols[i].locationData = [file |-> indexResponse.files[d.fileIndex],
                                      offset |-> d.codeOffset,
                                      length |-> d.codeLength]

\* C10: the returned list has one entry per declaration, in the order of the
\* response, each carrying the deferred metadata of its declaration; entries
\* are unresolved when returned and the search opens no document.
C10_OneUnresolvedEntryPerDeclarationInOrder ==
    /\ [](searchResult = "list" =>
              /\ Len(symbols) = Len(indexResponse.declarations)
              /\ \A i \in 1..Len(symbols) : EntryMatchesDeclaration(i))
    /\ [][searchPc = "awaiting" =>
              /\ openCalls' = openCalls
              /\ \A i \in 1..Len(symbols') : ~Resolved(symbols'[i])]_vars

C10_Witness ==
    /\ searchResult = "list"
    /\ Len(symbols) = 2
    /\ indexResponse.declarations[1].fileIndex # indexResponse.declarations[2].fileIndex
    /\ \A i \in 1..2 : ~Resolved(symbols[i])

====
